---- MODULE Spec2Model ----
(***************************************************************************)
(* DocBot Enterprise frontend: the REST service wrappers (authService,     *)
(* invoiceService, dashboardService), the AuthProvider context, the        *)
(* Dashboard and InvoiceUpload pages and the two route tables.             *)
(*                                                                         *)
(* Tokens and users are naturals: Null is JavaScript's null, 1 is the      *)
(* token a previous session left in localStorage, login call k is answered *)
(* with the fresh token k + 1, and the user data the backend returns for   *)
(* token t is identified by t.                                             *)
(***************************************************************************)
EXTENDS Integers, Sequences, FiniteSets, TLC

\* ------------------------------------------------------------------ bounds
MaxLogins == 1
MaxMounts == 1
MaxFiles == 2
MaxRequests == 4
MaxNotes == 2

\* ------------------------------------------------------------------ values
Null == 0
StoredToken == 1

Keys == {"docbot_token", "token"}

Absent == [t |-> "absent", v |-> ""]
StrDetail(s) == [t |-> "str", v |-> s]
ObjDetail == [t |-> "obj", v |-> ""]
Details == {Absent, StrDetail(""), StrDetail("Server says no"), ObjDetail}

\* `x || fallback`: undefined and the empty string are falsy, an object is truthy
Truthy(d) == d.t = "obj" \/ (d.t = "str" /\ d.v # "")
\* `new Error(x)`: the message is String(x)
ToMessage(d) == IF d.t = "str" THEN d.v ELSE "[object Object]"

\* response.data of a 2xx answer: null, an object without `invoices`, one with it
Bodies == {"null", "object", "objectWithInvoices"}

\* status 0: the request failed without any HTTP response (error.response undefined)
NoResponse == [status |-> 0, detail |-> Absent, body |-> "null"]
OkResponses == {[status |-> 200, detail |-> Absent, body |-> b] : b \in Bodies}
ErrResponses == {[status |-> s, detail |-> d, body |-> "null"] : s \in {400, 401, 500}, d \in Details}
Responses == OkResponses \cup ErrResponses \cup {NoResponse}

IsOk(r) == r.status = 200

\* error.response?.data?.detail
DetailOf(r) == IF r.status = 0 THEN Absent ELSE r.detail

\* error.response?.data?.detail || fallback
DetailOr(r, fallback) == IF Truthy(DetailOf(r)) THEN ToMessage(DetailOf(r)) ELSE fallback

\* ---------------------------------------------------------------- services
AuthMethods == {"login", "getCurrentUser", "refreshToken", "register", "forgotPassword", "resetPassword", "updateProfile", "changePassword"}
InvoiceMethods == {"uploadInvoice", "getInvoices", "getInvoice", "approveInvoice"}
DashboardMethods == {"getStats", "getRecentInvoices"}
Methods == AuthMethods \cup InvoiceMethods \cup DashboardMethods

\* the methods of authService that take the token as a parameter
TokenMethods == {"getCurrentUser", "refreshToken", "updateProfile", "changePassword"}
\* Promise<void> methods
VoidMethods == {"forgotPassword", "resetPassword", "changePassword"}

Fallback(m) ==
    CASE m = "login" -> "Login failed"
      [] m = "getCurrentUser" -> "Failed to get user data"
      [] m = "refreshToken" -> "Token refresh failed"
      [] m = "register" -> "Registration failed"
      [] m = "forgotPassword" -> "Failed to send reset email"
      [] m = "resetPassword" -> "Failed to reset password"
      [] m = "updateProfile" -> "Failed to update profile"
      [] m = "changePassword" -> "Failed to change password"
      [] m = "uploadInvoice" -> "Failed to upload invoice"
      [] m = "getInvoices" -> "Failed to get invoices"
      [] m = "getInvoice" -> "Failed to get invoice"
      [] m = "approveInvoice" -> "Failed to approve invoice"
      [] m = "getStats" -> "Failed to get dashboard stats"
      [] m = "getRecentInvoices" -> "Failed to get recent invoices"

ErrorMessage_Fallback400(m, r) ==
    CASE m = "login" /\ r.status = 401 -> "Invalid email or password"
      [] m = "getCurrentUser" /\ r.status = 401 -> "Invalid or expired token"
      [] m = "register" -> "Registration failed"
      [] m = "changePassword" /\ r.status = 400 -> "Current password is incorrect"
      [] m \in {"uploadInvoice", "getStats", "getRecentInvoices"} /\ r.status = 401 ->
            "Authentication required"
      [] OTHER -> IF r.status = 400 THEN Fallback(m) ELSE DetailOr(r, Fallback(m))

ErrorMessage_AxiosMessage(m, r) ==
    CASE r.status = 0 -> "Request failed"
      [] m = "login" /\ r.status = 401 -> "Invalid email or password"
      [] m = "getCurrentUser" /\ r.status = 401 -> "Invalid or expired token"
      [] m = "register" ->
            IF r.status = 400 THEN DetailOr(r, "Registration failed") ELSE "Registration failed"
      [] m = "changePassword" /\ r.status = 400 -> "Current password is incorrect"
      [] m \in {"uploadInvoice", "getStats", "getRecentInvoices"} /\ r.status = 401 ->
            "Authentication required"
      [] OTHER -> DetailOr(r, Fallback(m))

\* the catch block of method m, given the rejected request's response r
ErrorMessage(m, r) ==
    CASE m = "login" /\ r.status = 401 -> "Invalid email or password"
      [] m = "getCurrentUser" /\ r.status = 401 -> "Invalid or expired token"
      [] m = "register" ->
            IF r.status = 400 THEN DetailOr(r, "Registration failed") ELSE "Registration failed"
      [] m = "changePassword" /\ r.status = 400 -> "Current password is incorrect"
      [] m \in {"uploadInvoice", "getStats", "getRecentInvoices"} /\ r.status = 401 ->
            "Authentication required"
      [] OTHER -> DetailOr(r, Fallback(m))

\* the try block of method m after a 2xx answer r: the value returned, or "TypeError"
\* when evaluating the return expression throws (null.invoices)
ReturnValue(m, r) ==
    CASE m \in VoidMethods -> "undefined"
      [] m = "getRecentInvoices" ->
            CASE r.body = "null" -> "TypeError"
              [] r.body = "object" -> "[]"
              [] OTHER -> "response.data.invoices"
      [] OTHER -> IF r.body = "null" THEN "null" ELSE "response.data"

\* an Error object: `new Error(message)` carries no `response` property, an axios
\* rejection carries the response it got (NoResponse when there was none)
NewError(message) == [message |-> message, response |-> NoResponse]
AxiosError(r) == [message |-> "Request failed", response |-> r]
NoError == [message |-> "", response |-> NoResponse]

\* how one invocation of method m ends when its request is answered with r
Settle(m, r) ==
    IF IsOk(r) /\ ReturnValue(m, r) # "TypeError"
    THEN [kind |-> "returned", value |-> ReturnValue(m, r), error |-> NoError]
    ELSE [kind |-> "thrown", value |-> "undefined",
          error |-> NewError(ErrorMessage(m, IF IsOk(r) THEN NoResponse ELSE r))]

Pending == [kind |-> "pending", value |-> "undefined", error |-> NoError]

Bearer(tok) == <<"Bearer", tok>>
NoAuthorization == <<>>

\* ------------------------------------------------------------ query string
\* an optional number or string argument: not supplied, or a value
NoNumber == [t |-> "undefined", v |-> 0]
Number(n) == [t |-> "num", v |-> n]
NoString == [t |-> "undefined", v |-> ""]
String(x) == [t |-> "str", v |-> x]

\* the params objects getInvoices is called with (NoParams: called with none)
NoParams == [skip |-> NoNumber, limit |-> NoNumber, status_filter |-> NoString]
ParamsSet ==
    [skip : {NoNumber, Number(0), Number(20)},
     limit : {NoNumber, Number(0), Number(10)},
     status_filter : {NoString, String(""), String("approved")}]

\* the URLSearchParams getInvoices builds: the name/value pairs in append order;
\* `if (params?.x)` is false for undefined, 0 and ''
QueryParams(params) ==
    (IF params.skip.t # "undefined" /\ params.skip.v # 0
     THEN <<<<"skip", ToString(params.skip.v)>>>> ELSE <<>>)
    \o (IF params.limit.t # "undefined" /\ params.limit.v # 0
        THEN <<<<"limit", ToString(params.limit.v)>>>> ELSE <<>>)
    \o (IF params.status_filter.t # "undefined" /\ params.status_filter.v # ""
        THEN <<<<"status_filter", params.status_filter.v>>>> ELSE <<>>)

\* the query of the request method m sends (getRecentInvoices: ?limit=10, its
\* default argument)
QueryOf(m, params) ==
    CASE m = "getInvoices" -> QueryParams(params)
      [] m = "getRecentInvoices" -> <<<<"limit", "10">>>>
      [] OTHER -> <<>>

\* ------------------------------------------------------------------ routes
Paths == {"/", "/login", "/dashboard", "/upload", "/invoices", "/invoices/1", "/vendors", "/settings"}

\* <Route path=... element=...> of the App with AuthProvider (children of "/" are
\* wrapped in ProtectedRoute) and of App.js (none is)
RoutesTsx ==
    [p \in Paths |->
        CASE p = "/login" -> [page |-> "Login", protected |-> FALSE, to |-> p]
          [] p = "/" -> [page |-> "Navigate", protected |-> TRUE, to |-> "/dashboard"]
          [] p = "/dashboard" -> [page |-> "Dashboard", protected |-> TRUE, to |-> p]
          [] p = "/upload" -> [page |-> "InvoiceUpload", protected |-> TRUE, to |-> p]
          [] p = "/invoices" -> [page |-> "InvoiceList", protected |-> TRUE, to |-> p]
          [] p = "/invoices/1" -> [page |-> "InvoiceDetail", protected |-> TRUE, to |-> p]
          [] p = "/vendors" -> [page |-> "VendorList", protected |-> TRUE, to |-> p]
          [] p = "/settings" -> [page |-> "Settings", protected |-> TRUE, to |-> p]]

RoutesJs ==
    [p \in Paths |->
        CASE p = "/" -> [page |-> "Dashboard", protected |-> FALSE, to |-> p]
          [] p = "/upload" -> [page |-> "InvoiceUpload", protected |-> FALSE, to |-> p]
          [] p = "/invoices" -> [page |-> "InvoiceList", protected |-> FALSE, to |-> p]
          [] p = "/vendors" -> [page |-> "VendorList", protected |-> FALSE, to |-> p]
          [] p = "/login" -> [page |-> "Login", protected |-> FALSE, to |-> p]
          [] OTHER -> [page |-> "Navigate", protected |-> FALSE, to |-> "/"]]

Routes(a) == IF a = "tsx" THEN RoutesTsx ELSE RoutesJs

\* ProtectedRoute: its children are rendered only while a token is held, otherwise
\* it navigates to /login
ProtectedRoute(route, tok) ==
    IF route.protected /\ tok = Null
    THEN [page |-> "Navigate", protected |-> FALSE, to |-> "/login"]
    ELSE route

\* the location the router settles on when asked for p while tok is held
Resolve(a, p, tok) ==
    LET r1 == ProtectedRoute(Routes(a)[p], tok)
        r2 == ProtectedRoute(Routes(a)[r1.to], tok)
    IN  r2.to

\* the page component shown at location p
PageAt(a, p) == Routes(a)[p].page

\* where the browser is when the app starts: the first render of the App with
\* AuthProvider has token null, so ProtectedRoute has sent any location to /login
FirstPath(a) == IF a = "tsx" THEN "/login" ELSE "/"

\* the links followed: the index route, the unprotected page, a protected page
NavTargets == {"/", "/login", "/upload"}

ProtectedPages == {"Dashboard", "InvoiceUpload", "InvoiceList", "InvoiceDetail", "VendorList", "Settings"}

\* ------------------------------------------------------------ AuthProvider
\* the answers the start-up and login requests are drawn from
AuthResponses ==
    { [status |-> 200, detail |-> Absent, body |-> "objectWithInvoices"],
      [status |-> 401, detail |-> Absent, body |-> "null"],
      NoResponse }

\* response.access_token of the k-th login call: a fresh token
LoginToken(k) == StoredToken + k
\* the user data /api/v1/users/me returns for token tok
UserData(tok) == tok

\* uploadProgress 0
Zero == [num |-> 0, den |-> 1]

NoRequest == [pc |-> "none", authorization |-> NoAuthorization, status |-> 0, value |-> "undefined"]

VARIABLES
    localStorage,   \* [Keys -> token or Null]
    svcPc,          \* one invocation of a service method: "idle", "sent", "done"
    svcMethod,
    svcRequests,    \* the HTTP requests this invocation has issued, in order
    svcResponse,    \* the answer to the last of them
    svcResult       \* what the invocation did: Pending, returned or thrown

svcVars == <<svcPc, svcMethod, svcRequests, svcResponse, svcResult>>

VARIABLES
    app,            \* the entry point built: "tsx" (AuthProvider, ProtectedRoute) or "js" (App.js)
    path,           \* the router's location
    user,           \* AuthProvider state
    token,
    loading,
    initPc,         \* initAuth: "start", "wait" (awaiting getCurrentUser), "done"
    storedToken,    \* initAuth's local
    logins,         \* the calls of login: "idle", "login", "me" (awaiting getCurrentUser), "resolved", "rejected"
    afterLogout,    \* history: logout has returned and login has not been called since
    discarded       \* history: the tokens logout has removed

authVars == <<user, token, loading, initPc, storedToken, logins, afterLogout, discarded>>

VARIABLES
    dashMounted,    \* a Dashboard component is mounted
    stats,          \* Dashboard state
    recentInvoices,
    dashLoading,
    dashReq,        \* the two requests of fetchDashboardData
    dashAll,        \* its Promise.all: "none", "pending", "fulfilled", "rejected"
    nMounts,
    notifications   \* what showNotification was called with, in order

dashVars == <<dashMounted, stats, recentInvoices, dashLoading, dashReq, dashAll, nMounts>>

VARIABLES
    files,          \* InvoiceUpload state: the selected list of [file, preview]
    uploading,
    uploadProgress, \* 100 * num / den
    uploads,        \* the uploadInvoice calls not yet forgotten, in the order they were made
    batchPending,   \* the Promise.all of the last handleUpload has not settled
    batches,        \* the runs of handleUpload that went on to upload
    sent,           \* the uploadInvoice calls made so far
    accepted,       \* the files (by number) an upload of which was answered ok
    nextFile,       \* the File objects the dropzone has accepted so far
    objectUrls      \* the object URLs created and not revoked

upVars == <<files, uploading, uploadProgress, uploads, batchPending, batches, sent,
           accepted, nextFile, objectUrls>>

VARIABLES
    jsLoading,      \* App.js Login state: loading
    jsInFlight,     \* the login fetches of App.js not yet settled
    jsSubmits,      \* the runs of Login.handleSubmit so far
    alerts,         \* the alert() messages shown, in order
    onLoginCalls    \* the arguments onLogin was called with, in order

jsVars == <<jsLoading, jsInFlight, jsSubmits, alerts, onLoginCalls>>

vars == <<localStorage, svcVars, app, path, authVars, dashVars, notifications, upVars, jsVars>>
notSvc == <<localStorage, app, path, authVars, dashVars, notifications, upVars, jsVars>>

getAuthHeaders_ReadOnce == Bearer(storedToken)

\* InvoiceService.getAuthHeaders / DashboardService.getAuthHeaders
getAuthHeaders == Bearer(localStorage["docbot_token"])

\* the Authorization header method m sends, tok being its token parameter
Authorization(m, tok) ==
    IF m \in AuthMethods
    THEN IF m \in TokenMethods THEN Bearer(tok) ELSE NoAuthorization
    ELSE getAuthHeaders

\* no service invocation, no Dashboard, nothing selected on the upload page
InitPages ==
    /\ svcPc = "idle"
    /\ svcMethod = "login"
    /\ svcRequests = <<>>
    /\ svcResponse = NoResponse
    /\ svcResult = Pending
    /\ dashMounted = FALSE
    /\ stats = "null"
    /\ recentInvoices = "[]"
    /\ dashLoading = TRUE
    /\ dashReq = [m \in DashboardMethods |-> NoRequest]
    /\ dashAll = "none"
    /\ nMounts = 0
    /\ notifications = <<>>
    /\ files = <<>>
    /\ uploading = FALSE
    /\ uploadProgress = Zero
    /\ uploads = <<>>
    /\ batchPending = FALSE
    /\ batches = 0
    /\ sent = 0
    /\ accepted = {}
    /\ nextFile = 0
    /\ objectUrls = {}
    /\ jsLoading = FALSE
    /\ jsInFlight = 0
    /\ jsSubmits = 0
    /\ alerts = <<>>
    /\ onLoginCalls = <<>>

Init ==
    /\ localStorage \in {[k \in Keys |-> IF k = "docbot_token" THEN t ELSE Null] : t \in {Null, StoredToken}}
    /\ InitPages
    /\ app \in {"tsx", "js"}
    /\ path = FirstPath(app)
    /\ user = Null
    /\ token = Null
    /\ loading = TRUE
    /\ initPc = "start"
    /\ storedToken = Null
    /\ logins = [i \in 1..MaxLogins |-> "idle"]
    /\ afterLogout = FALSE
    /\ discarded = {}

\* a caller invokes method m: the method issues its one axios request and awaits it
SvcCall(m, tok, params) ==
    /\ svcPc = "idle"
    /\ svcPc' = "sent"
    /\ svcMethod' = m
    /\ svcRequests' = <<[method |-> m, authorization |-> Authorization(m, tok),
                         params |-> params, query |-> QueryOf(m, params)]>>
    /\ svcResponse' = NoResponse
    /\ svcResult' = Pending
    /\ UNCHANGED notSvc

SvcSettle_Retry(r) ==
    /\ svcPc = "sent"
    /\ svcResponse' = r
    /\ IF ~IsOk(r) /\ Len(svcRequests) < 2
       THEN /\ svcRequests' = Append(svcRequests, svcRequests[1])
            /\ UNCHANGED <<svcPc, svcResult>>
       ELSE /\ svcPc' = "done"
            /\ svcResult' = Settle(svcMethod, r)
            /\ UNCHANGED svcRequests
    /\ UNCHANGED <<notSvc, svcMethod>>

\* the request is answered with r (or fails): the method returns or throws
SvcSettle(r) ==
    /\ svcPc = "sent"
    /\ svcPc' = "done"
    /\ svcResponse' = r
    /\ svcResult' = Settle(svcMethod, r)
    /\ UNCHANGED <<notSvc, svcMethod, svcRequests>>

\* the caller is done with the result; the next invocation may start
SvcFinish ==
    /\ svcPc = "done"
    /\ svcPc' = "idle"
    /\ svcRequests' = <<>>
    /\ svcResponse' = NoResponse
    /\ svcResult' = Pending
    /\ UNCHANGED <<notSvc, svcMethod>>

NextSvc ==
    \/ \E m \in Methods, tok \in {Null, StoredToken} :
          \E params \in (IF m = "getInvoices" THEN ParamsSet ELSE {NoParams}) :
              SvcCall(m, tok, params)
    \/ \E r \in Responses : SvcSettle(r)
    \/ SvcFinish

SpecSvc == Init /\ [][NextSvc]_vars

\* --------------------------------------------------------------- Dashboard
notDash == <<localStorage, svcVars, app, authVars, upVars, jsVars>>

\* the Dashboard component comes into being: useState initial values, then the
\* effect runs fetchDashboardData, which calls getStats and getRecentInvoices
DashMount ==
    /\ dashMounted' = TRUE
    /\ stats' = "null"
    /\ recentInvoices' = "[]"
    /\ dashLoading' = TRUE
    /\ dashReq' = [m \in DashboardMethods |->
                      [pc |-> "wait", authorization |-> Authorization(m, Null),
                       status |-> 0, value |-> "undefined"]]
    /\ dashAll' = "pending"
    /\ nMounts' = nMounts + 1

\* the component goes away and its state with it; its requests stay in flight
DashUnmount ==
    /\ dashMounted' = FALSE
    /\ stats' = "null"
    /\ recentInvoices' = "[]"
    /\ dashLoading' = TRUE
    /\ UNCHANGED <<dashReq, dashAll, nMounts>>

\* a Dashboard can be mounted: the requests of the previous one have settled
CanMount == nMounts < MaxMounts /\ \A m \in DashboardMethods : dashReq[m].pc # "wait"

\* what a change of location from path to p does to the Dashboard of the tsx App
DashRender(p) ==
    IF app = "tsx" /\ PageAt(app, p) = "Dashboard" /\ PageAt(app, path) # "Dashboard"
    THEN DashMount
    ELSE IF app = "tsx" /\ PageAt(app, p) # "Dashboard" /\ PageAt(app, path) = "Dashboard"
         THEN DashUnmount
         ELSE UNCHANGED dashVars

\* the InvoiceUpload component goes away and its state with it; the uploads in
\* flight go on, their closures holding the setters of a component that is gone
UploadUnmount ==
    /\ files' = <<>>
    /\ uploading' = FALSE
    /\ uploadProgress' = Zero
    /\ uploads' = [k \in DOMAIN uploads |-> [uploads[k] EXCEPT !.live = FALSE]]
    /\ UNCHANGED <<batchPending, batches, sent, accepted, nextFile, objectUrls>>

\* and to the InvoiceUpload page of the tsx App (a new one starts from useState's
\* initial values, which are the values UploadUnmount leaves)
UploadRender(p) ==
    IF app = "tsx" /\ PageAt(app, p) # "InvoiceUpload" /\ PageAt(app, path) = "InvoiceUpload"
    THEN UploadUnmount
    ELSE UNCHANGED upVars

Rerender(p) == DashRender(p) /\ UploadRender(p)

\* and to the Login page of App.js: leaving /login discards its loading state, the
\* fetch it started goes on
LoginRender(p) ==
    IF app = "js" /\ PageAt(app, path) = "Login" /\ PageAt(app, p) # "Login"
    THEN jsLoading' = FALSE /\ UNCHANGED <<jsInFlight, jsSubmits, alerts, onLoginCalls>>
    ELSE UNCHANGED jsVars

\* the user follows a link to p (or the code calls navigate(p))
Navigate(p) ==
    /\ app = "tsx" => initPc # "start"
    /\ LET q == Resolve(app, p, token)
       IN  /\ q # path
           /\ (app = "tsx" /\ PageAt(app, q) = "Dashboard") => CanMount
           /\ path' = q
           /\ Rerender(q)
           /\ LoginRender(q)
    /\ UNCHANGED <<localStorage, svcVars, app, authVars, notifications>>

\* showNotification(message, type)
showNotification(message, type) ==
    notifications' = Append(notifications, [message |-> message, type |-> type])

DashSettle_NoFinally(m, r) ==
    /\ dashReq[m].pc = "wait"
    /\ LET res == Settle(m, r)
           other == CHOOSE o \in DashboardMethods : o # m
           now == [dashReq EXCEPT ![m] =
                      [pc |-> IF res.kind = "returned" THEN "ok" ELSE "failed",
                       authorization |-> dashReq[m].authorization,
                       status |-> r.status, value |-> res.value]]
       IN  /\ dashReq' = now
           /\ IF dashAll = "pending" /\ res.kind = "thrown"
              THEN /\ dashAll' = "rejected"
                   /\ showNotification("Failed to load dashboard data", "error")
                   /\ UNCHANGED dashLoading
                   /\ UNCHANGED <<stats, recentInvoices>>
              ELSE IF dashAll = "pending" /\ now[other].pc = "ok"
                   THEN /\ dashAll' = "fulfilled"
                        /\ stats' = IF dashMounted THEN now["getStats"].value ELSE stats
                        /\ recentInvoices' = IF dashMounted THEN now["getRecentInvoices"].value
                                             ELSE recentInvoices
                        /\ dashLoading' = IF dashMounted THEN FALSE ELSE dashLoading
                        /\ UNCHANGED notifications
                   ELSE UNCHANGED <<dashAll, stats, recentInvoices, dashLoading, notifications>>
    /\ UNCHANGED <<notDash, path, dashMounted, nMounts>>

DashSettle_EachAlone(m, r) ==
    /\ dashReq[m].pc = "wait"
    /\ LET res == Settle(m, r)
           now == [dashReq EXCEPT ![m] =
                      [pc |-> IF res.kind = "returned" THEN "ok" ELSE "failed",
                       authorization |-> dashReq[m].authorization,
                       status |-> r.status, value |-> res.value]]
           done == \A o \in DashboardMethods : now[o].pc # "wait"
       IN  /\ dashReq' = now
           /\ dashAll' = IF res.kind = "thrown" THEN "rejected"
                         ELSE IF done /\ dashAll = "pending" THEN "fulfilled" ELSE dashAll
           /\ IF res.kind = "thrown"
              THEN /\ showNotification("Failed to load dashboard data", "error")
                   /\ UNCHANGED <<stats, recentInvoices>>
              ELSE /\ stats' = IF dashMounted /\ m = "getStats" THEN res.value ELSE stats
                   /\ recentInvoices' = IF dashMounted /\ m = "getRecentInvoices" THEN res.value
                                        ELSE recentInvoices
                   /\ UNCHANGED notifications
           /\ dashLoading' = IF dashMounted /\ (done \/ res.kind = "thrown") THEN FALSE
                             ELSE dashLoading
    /\ UNCHANGED <<notDash, path, dashMounted, nMounts>>

\* one of the two requests of fetchDashboardData is answered with r: Promise.all
\* rejects on the first failure and fulfils when both have succeeded
DashSettle(m, r) ==
    /\ dashReq[m].pc = "wait"
    /\ LET res == Settle(m, r)
           other == CHOOSE o \in DashboardMethods : o # m
           now == [dashReq EXCEPT ![m] =
                      [pc |-> IF res.kind = "returned" THEN "ok" ELSE "failed",
                       authorization |-> dashReq[m].authorization,
                       status |-> r.status, value |-> res.value]]
       IN  /\ dashReq' = now
           /\ IF dashAll = "pending" /\ res.kind = "thrown"
              THEN /\ dashAll' = "rejected"
                   /\ showNotification("Failed to load dashboard data", "error")
                   /\ dashLoading' = IF dashMounted THEN FALSE ELSE dashLoading
                   /\ UNCHANGED <<stats, recentInvoices>>
              ELSE IF dashAll = "pending" /\ now[other].pc = "ok"
                   THEN /\ dashAll' = "fulfilled"
                        /\ stats' = IF dashMounted THEN now["getStats"].value ELSE stats
                        /\ recentInvoices' = IF dashMounted THEN now["getRecentInvoices"].value
                                             ELSE recentInvoices
                        /\ dashLoading' = IF dashMounted THEN FALSE ELSE dashLoading
                        /\ UNCHANGED notifications
                   ELSE UNCHANGED <<dashAll, stats, recentInvoices, dashLoading, notifications>>
    /\ UNCHANGED <<notDash, path, dashMounted, nMounts>>

\* ------------------------------------------------------------ AuthProvider
notAuth == <<svcVars, app, notifications, jsVars>>

\* ProtectedRoute sees the token become tok
Reroute(tok) ==
    LET q == Resolve(app, path, tok)
    IN  path' = q /\ Rerender(q)

\* useEffect(() => { initAuth() }, []) up to its await
initAuthStart ==
    /\ app = "tsx"
    /\ initPc = "start"
    /\ storedToken' = localStorage["docbot_token"]
    /\ IF localStorage["docbot_token"] # Null
       THEN /\ token' = localStorage["docbot_token"]
            /\ initPc' = "wait"
            /\ UNCHANGED loading
       ELSE /\ loading' = FALSE
            /\ initPc' = "done"
            /\ UNCHANGED token
    /\ UNCHANGED <<localStorage, user, logins, afterLogout, discarded>>
    /\ UNCHANGED <<notAuth, path, dashVars, upVars>>

initAuthSettle_KeepToken(r) ==
    /\ initPc = "wait"
    /\ initPc' = "done"
    /\ loading' = FALSE
    /\ IF Settle("getCurrentUser", r).kind = "returned"
       THEN user' = UserData(storedToken)
       ELSE UNCHANGED user
    /\ UNCHANGED <<localStorage, token, path, dashVars, upVars>>
    /\ UNCHANGED <<storedToken, logins, afterLogout, discarded, notAuth>>

\* initAuth after getCurrentUser(storedToken) is answered with r
initAuthSettle(r) ==
    /\ initPc = "wait"
    /\ initPc' = "done"
    /\ loading' = FALSE
    /\ IF Settle("getCurrentUser", r).kind = "returned"
       THEN /\ user' = UserData(storedToken)
            /\ UNCHANGED <<localStorage, token, path, dashVars, upVars>>
       ELSE /\ localStorage' = [localStorage EXCEPT !["docbot_token"] = Null]
            /\ token' = Null
            /\ Reroute(Null)
            /\ UNCHANGED user
    /\ UNCHANGED <<storedToken, logins, afterLogout, discarded, notAuth>>

\* login(email, password) up to its first await; the calls are numbered in order
login(i) ==
    /\ app = "tsx"
    /\ initPc # "start"
    /\ logins[i] = "idle"
    /\ \A j \in 1..(i - 1) : logins[j] # "idle"
    /\ logins' = [logins EXCEPT ![i] = "login"]
    /\ afterLogout' = FALSE
    /\ UNCHANGED <<localStorage, user, token, loading, initPc, storedToken, discarded>>
    /\ UNCHANGED <<notAuth, path, dashVars, upVars>>

\* login after authService.login is answered with r
loginSettle(i, r) ==
    /\ logins[i] = "login"
    /\ IF Settle("login", r).kind = "returned"
       THEN /\ token' = LoginToken(i)
            /\ localStorage' = [localStorage EXCEPT !["docbot_token"] = LoginToken(i)]
            /\ logins' = [logins EXCEPT ![i] = "me"]
       ELSE /\ logins' = [logins EXCEPT ![i] = "rejected"]
            /\ UNCHANGED <<token, localStorage>>
    /\ UNCHANGED <<user, loading, initPc, storedToken, afterLogout, discarded>>
    /\ UNCHANGED <<notAuth, path, dashVars, upVars>>

\* login after getCurrentUser(response.access_token) is answered with r
loginUserSettle(i, r) ==
    /\ logins[i] = "me"
    /\ IF Settle("getCurrentUser", r).kind = "returned"
       THEN /\ user' = UserData(LoginToken(i))
            /\ logins' = [logins EXCEPT ![i] = "resolved"]
       ELSE /\ logins' = [logins EXCEPT ![i] = "rejected"]
            /\ UNCHANGED user
    /\ UNCHANGED <<localStorage, token, loading, initPc, storedToken, afterLogout, discarded>>
    /\ UNCHANGED <<notAuth, path, dashVars, upVars>>

logout ==
    /\ app = "tsx"
    /\ initPc # "start"
    /\ user' = Null
    /\ token' = Null
    /\ localStorage' = [localStorage EXCEPT !["docbot_token"] = Null]
    /\ afterLogout' = TRUE
    /\ discarded' = discarded \cup ({localStorage["docbot_token"]} \ {Null})
    /\ Reroute(Null)
    /\ UNCHANGED <<loading, initPc, storedToken, logins, notAuth>>

NextAuth ==
    \/ initAuthStart
    \/ \E r \in AuthResponses : initAuthSettle(r)
    \/ \E i \in 1..MaxLogins : login(i)
    \/ \E i \in 1..MaxLogins, r \in AuthResponses : loginSettle(i, r)
    \/ \E i \in 1..MaxLogins, r \in AuthResponses : loginUserSettle(i, r)
    \/ logout
    \/ \E p \in NavTargets : Navigate(p)
    \/ \E m \in DashboardMethods, r \in AuthResponses : DashSettle(m, r)

SpecAuth == Init /\ [][NextAuth]_vars

\* start-up and what follows it without a login: the mount effects run, the user
\* moves between pages and logs out, and every request is eventually answered
NextLoading ==
    \/ initAuthStart
    \/ \E r \in AuthResponses : initAuthSettle(r)
    \/ logout
    \/ \E p \in NavTargets : Navigate(p)
    \/ \E m \in DashboardMethods, r \in AuthResponses : DashSettle(m, r)

SpecLoading ==
    /\ Init
    /\ [][NextLoading]_vars
    /\ WF_vars(initAuthStart)
    /\ WF_vars(\E r \in AuthResponses : initAuthSettle(r))
    /\ \A m \in DashboardMethods : WF_vars(\E r \in AuthResponses : DashSettle(m, r))

\* ----------------------------------------------------------- InvoiceUpload
\* useDropzone({accept, maxSize: 50 * 1024 * 1024, multiple: true})
MaxSize == 52428800
AcceptedTypes == {"application/pdf", "image/jpeg", "image/png"}
AcceptedExts == {".pdf", ".jpg", ".jpeg", ".png"}
Accepts_AnySize(f) == f.type \in AcceptedTypes \/ f.ext \in AcceptedExts
\* the dropzone takes a file whose MIME type or whose name's extension is listed
Accepts(f) == (f.type \in AcceptedTypes \/ f.ext \in AcceptedExts) /\ f.size <= MaxSize

\* the files the user drops
Dropped ==
    { [type |-> "", ext |-> ".pdf", size |-> 1024],
      [type |-> "image/png", ext |-> ".png", size |-> MaxSize],
      [type |-> "image/jpeg", ext |-> ".jpg", size |-> MaxSize + 1],
      [type |-> "text/plain", ext |-> ".txt", size |-> 1024] }

\* the answers an upload is drawn from
UploadResponses ==
    { [status |-> 200, detail |-> Absent, body |-> "object"],
      [status |-> 400, detail |-> StrDetail("Server says no"), body |-> "null"],
      [status |-> 401, detail |-> Absent, body |-> "null"],
      NoResponse }

\* file.type.startsWith('image/')
IsImage(f) == f.type \in {"image/jpeg", "image/png"}

notUpload == <<localStorage, svcVars, app, authVars, jsVars>>

\* onDrop(acceptedFiles), one file at a time; URL.createObjectURL makes a new URL,
\* named here by the number of the file
onDrop(acceptedFiles) ==
    LET newFiles == [i \in DOMAIN acceptedFiles |->
                        [file |-> [id |-> nextFile + i, type |-> acceptedFiles[i].type,
                                   ext |-> acceptedFiles[i].ext,
                                   size |-> acceptedFiles[i].size],
                         preview |-> IF IsImage(acceptedFiles[i]) THEN nextFile + i ELSE Null]]
    IN  /\ files' = files \o newFiles
        /\ nextFile' = nextFile + Len(acceptedFiles)
        /\ objectUrls' = objectUrls \cup
              {newFiles[i].preview : i \in {j \in DOMAIN newFiles : newFiles[j].preview # Null}}

\* the user drops f on the dropzone, which hands onDrop the files it accepts
drop(f) ==
    /\ app = "tsx"
    /\ PageAt(app, path) = "InvoiceUpload"
    /\ nextFile < MaxFiles
    /\ onDrop(IF Accepts(f) THEN <<f>> ELSE <<>>)
    /\ UNCHANGED <<uploading, uploadProgress, uploads, batchPending, batches, sent, accepted>>
    /\ UNCHANGED <<notUpload, path, dashVars, notifications>>

removeFile_WhileUploading(index) ==
    /\ app = "tsx"
    /\ PageAt(app, path) = "InvoiceUpload"
    /\ index \in DOMAIN files
    /\ objectUrls' = objectUrls \ {files[index].preview}
    /\ files' = [i \in 1..(Len(files) - 1) |-> IF i < index THEN files[i] ELSE files[i + 1]]
    /\ UNCHANGED <<uploading, uploadProgress, uploads, batchPending, batches, sent, accepted, nextFile>>
    /\ UNCHANGED <<notUpload, path, dashVars, notifications>>

\* removeFile(index), index counted from 1; its button is disabled while uploading
removeFile(index) ==
    /\ app = "tsx"
    /\ PageAt(app, path) = "InvoiceUpload"
    /\ ~uploading
    /\ index \in DOMAIN files
    /\ objectUrls' = objectUrls \ {files[index].preview}
    /\ files' = [i \in 1..(Len(files) - 1) |-> IF i < index THEN files[i] ELSE files[i + 1]]
    /\ UNCHANGED <<uploading, uploadProgress, uploads, batchPending, batches, sent, accepted, nextFile>>
    /\ UNCHANGED <<notUpload, path, dashVars, notifications>>

\* Clear All: onClick={() => setFiles([])}; shown while files are selected,
\* disabled while uploading
clearAll ==
    /\ app = "tsx"
    /\ PageAt(app, path) = "InvoiceUpload"
    /\ ~uploading
    /\ Len(files) > 0
    /\ files' = <<>>
    /\ UNCHANGED <<uploading, uploadProgress, uploads, batchPending, batches, sent, accepted, nextFile, objectUrls>>
    /\ UNCHANGED <<notUpload, path, dashVars, notifications>>

\* the requests still unanswered: a settled request is kept on record only while
\* the Promise.all it belongs to is pending
InFlight(ups) == SelectSeq(ups, LAMBDA u : u.pc = "wait")
\* with the answered ones of the batch handleUpload is awaiting
Kept(ups) == SelectSeq(ups, LAMBDA u : u.pc = "wait" \/ (batchPending /\ u.batch = batches))

StartUploads_SkipAccepted ==
    /\ uploading' = TRUE
    /\ uploadProgress' = Zero
    /\ batches' = batches + 1
    /\ sent' = sent + Len(SelectSeq(files, LAMBDA f : f.file.id \notin accepted))
    /\ batchPending' = TRUE
    /\ uploads' = InFlight(uploads) \o
          [i \in 1..Len(SelectSeq(files, LAMBDA f : f.file.id \notin accepted)) |->
              [batch |-> batches + 1, index |-> i, n |-> Len(files),
               file |-> SelectSeq(files, LAMBDA f : f.file.id \notin accepted)[i].file.id,
               preview |-> SelectSeq(files, LAMBDA f : f.file.id \notin accepted)[i].preview,
               authorization |-> Authorization("uploadInvoice", Null),
               pc |-> "wait", live |-> TRUE]]
    /\ UNCHANGED <<files, accepted, nextFile, objectUrls, notifications>>

\* the uploadInvoice calls of files.map(...): every request is issued at once
StartUploads ==
    /\ uploading' = TRUE
    /\ uploadProgress' = Zero
    /\ batches' = batches + 1
    /\ sent' = sent + Len(files)
    /\ batchPending' = TRUE
    /\ uploads' = InFlight(uploads) \o
          [i \in 1..Len(files) |->
              [batch |-> batches + 1, index |-> i, n |-> Len(files),
               file |-> files[i].file.id, preview |-> files[i].preview,
               authorization |-> Authorization("uploadInvoice", Null),
               pc |-> "wait", live |-> TRUE]]
    /\ UNCHANGED <<files, accepted, nextFile, objectUrls, notifications>>

handleUpload_NoGuard ==
    /\ app = "tsx"
    /\ PageAt(app, path) = "InvoiceUpload"
    /\ StartUploads
    /\ UNCHANGED <<notUpload, path, dashVars>>

\* handleUpload up to its await
handleUpload ==
    /\ app = "tsx"
    /\ PageAt(app, path) = "InvoiceUpload"
    /\ IF Len(files) = 0
       THEN /\ showNotification("Please select at least one file to upload", "error")
            /\ UNCHANGED upVars
       ELSE StartUploads
    /\ UNCHANGED <<notUpload, path, dashVars>>

SuccessMessage_NoPlural(n) == "Successfully uploaded " \o ToString(n) \o " invoice"

\* `Successfully uploaded ${n} invoice${n > 1 ? 's' : ''}`
SuccessMessage(n) ==
    "Successfully uploaded " \o ToString(n) \o " invoice" \o (IF n > 1 THEN "s" ELSE "")

\* the k-th upload on record is answered with r: the rest of its async callback,
\* and of handleUpload when this settles its Promise.all
uploadSettle(k, r) ==
    /\ k \in DOMAIN uploads
    /\ uploads[k].pc = "wait"
    /\ LET rec == uploads[k]
           res == Settle("uploadInvoice", r)
           now == [uploads EXCEPT ![k] =
                      [@ EXCEPT !.pc = IF res.kind = "returned" THEN "ok" ELSE "failed"]]
           mine == {j \in DOMAIN now : now[j].batch = rec.batch}
           last == rec.batch = batches /\ batchPending
       IN  IF res.kind = "returned"
           THEN IF last /\ \A j \in mine : now[j].pc = "ok"
                THEN LET q == Resolve(app, "/invoices", token)
                     IN  /\ showNotification(SuccessMessage(rec.n), "success")
                         /\ objectUrls' = objectUrls \ {now[j].preview : j \in mine}
                         /\ batchPending' = FALSE
                         /\ path' = q
                         /\ DashRender(q)
                         /\ IF PageAt(app, path) = "InvoiceUpload" /\ PageAt(app, q) # "InvoiceUpload"
                            THEN /\ files' = <<>>
                                 /\ uploading' = FALSE
                                 /\ uploadProgress' = Zero
                                 /\ uploads' = [j \in DOMAIN InFlight(now) |->
                                                   [InFlight(now)[j] EXCEPT !.live = FALSE]]
                            ELSE /\ uploads' = InFlight(now)
                                 /\ UNCHANGED <<files, uploading, uploadProgress>>
                         /\ UNCHANGED <<batches, sent, nextFile>>
                ELSE /\ uploadProgress' = IF rec.live THEN [num |-> rec.index, den |-> rec.n]
                                          ELSE uploadProgress
                     /\ uploads' = Kept(now)
                     /\ UNCHANGED <<files, uploading, batchPending, batches, sent, nextFile, objectUrls>>
                     /\ UNCHANGED <<path, dashVars, notifications>>
           ELSE IF last
                THEN /\ showNotification(DetailOr(res.error.response, "Failed to upload invoices"), "error")
                     /\ batchPending' = FALSE
                     /\ uploading' = IF rec.live THEN FALSE ELSE uploading
                     /\ uploadProgress' = IF rec.live THEN Zero ELSE uploadProgress
                     /\ uploads' = InFlight(now)
                     /\ UNCHANGED <<files, batches, sent, nextFile, objectUrls, path, dashVars>>
                ELSE /\ uploads' = Kept(now)
                     /\ UNCHANGED <<files, uploading, uploadProgress, batchPending, batches, sent>>
                     /\ UNCHANGED <<nextFile, objectUrls, path, dashVars, notifications>>
    /\ accepted' = IF Settle("uploadInvoice", r).kind = "returned"
                   THEN accepted \cup {uploads[k].file} ELSE accepted
    /\ UNCHANGED notUpload

\* a session is established and the router shows the InvoiceUpload page
InitUpload ==
    /\ localStorage = [k \in Keys |-> IF k = "docbot_token" THEN StoredToken ELSE Null]
    /\ InitPages
    /\ app = "tsx"
    /\ path = "/upload"
    /\ user = UserData(StoredToken)
    /\ token = StoredToken
    /\ loading = FALSE
    /\ initPc = "done"
    /\ storedToken = StoredToken
    /\ logins = [i \in 1..MaxLogins |-> "idle"]
    /\ afterLogout = FALSE
    /\ discarded = {}

NextUpload ==
    \/ \E f \in Dropped : drop(f)
    \/ \E i \in 1..MaxFiles : removeFile(i)
    \/ clearAll
    \/ /\ ~uploading
       /\ Len(files) = 0 => Len(notifications) < MaxNotes
       /\ Len(files) > 0 => sent + Len(files) <= MaxRequests
       /\ handleUpload
    \/ \E k \in 1..MaxRequests, r \in UploadResponses : uploadSettle(k, r)
    \/ \E p \in {"/upload"} : Navigate(p)

SpecUpload == InitUpload /\ [][NextUpload]_vars

\* ------------------------------------------------------------ App.js Login
MaxSubmits == 2

\* data.access_token of an ok login answer, and what setItem stores for a body
\* without access_token (the text 'undefined')
JsToken == StoredToken + MaxLogins + 1
UndefinedText == StoredToken + MaxLogins + 2

\* the outcomes of fetch(.../api/v1/auth/login): the promise rejects ("error"), or
\* a response arrives, ok or not, whose body parses as JSON or does not
FetchOutcomes ==
    { [kind |-> "error", ok |-> FALSE, json |-> "none"],
      [kind |-> "response", ok |-> FALSE, json |-> "object"],
      [kind |-> "response", ok |-> TRUE, json |-> "invalid"],
      [kind |-> "response", ok |-> TRUE, json |-> "object"],
      [kind |-> "response", ok |-> TRUE, json |-> "token"] }

notJs == <<svcVars, app, path, authVars, dashVars, notifications, upVars>>

\* Login.handleSubmit up to its await; the submit button is disabled while loading
handleSubmit ==
    /\ app = "js"
    /\ PageAt(app, path) = "Login"
    /\ ~jsLoading
    /\ jsLoading' = TRUE
    /\ jsInFlight' = jsInFlight + 1
    /\ jsSubmits' = jsSubmits + 1
    /\ UNCHANGED <<alerts, onLoginCalls, localStorage, notJs>>

\* the fetches in flight whose Login is no longer on display
Orphans == jsInFlight - (IF jsLoading THEN 1 ELSE 0)

handleSubmitSettle_StoreAlways(o, live) ==
    /\ IF live THEN jsLoading ELSE Orphans > 0
    /\ jsInFlight' = jsInFlight - 1
    /\ jsLoading' = IF live THEN FALSE ELSE jsLoading
    /\ localStorage' = [localStorage EXCEPT !["token"] = JsToken]
    /\ onLoginCalls' = Append(onLoginCalls, JsToken)
    /\ UNCHANGED <<alerts, jsSubmits, notJs>>

\* handleSubmit after its fetch settled with o; live: the Login that started it is
\* still on display, so that setLoading(false) reaches it
handleSubmitSettle(o, live) ==
    /\ IF live THEN jsLoading ELSE Orphans > 0
    /\ jsInFlight' = jsInFlight - 1
    /\ jsLoading' = IF live THEN FALSE ELSE jsLoading
    /\ IF o.kind = "response" /\ o.ok /\ o.json # "invalid"
       THEN LET access_token == IF o.json = "token" THEN JsToken ELSE UndefinedText
            IN  /\ localStorage' = [localStorage EXCEPT !["token"] = access_token]
                /\ onLoginCalls' = Append(onLoginCalls, access_token)
                /\ UNCHANGED alerts
       ELSE /\ alerts' = Append(alerts,
                   IF o.kind = "response" /\ ~o.ok
                   THEN "Login failed. Try with demo credentials or register new account."
                   ELSE "Login error. Backend might be starting up.")
            /\ UNCHANGED <<localStorage, onLoginCalls>>
    /\ UNCHANGED <<jsSubmits, notJs>>

NextJs ==
    \/ jsSubmits < MaxSubmits /\ handleSubmit
    \/ \E o \in FetchOutcomes, live \in BOOLEAN : handleSubmitSettle(o, live)
    \/ \E p \in NavTargets : Navigate(p)
    \/ \E m \in InvoiceMethods \cup DashboardMethods : SvcCall(m, Null, NoParams)
    \/ \E r \in Responses : SvcSettle(r)
    \/ SvcFinish

SpecJs == Init /\ [][NextJs]_vars

\* no request is in flight
Quiescent ==
    /\ initPc # "wait"
    /\ \A i \in 1..MaxLogins : logins[i] \notin {"login", "me"}
    /\ \A m \in DashboardMethods : dashReq[m].pc # "wait"

\* C1: one invocation of any service method issues exactly one HTTP request and
\* then either returns a value taken from that response or throws an Error; a
\* failed request is never issued again.
C1_OneRequest ==
    /\ svcPc = "idle" => svcRequests = <<>>
    /\ svcPc \in {"sent", "done"} => Len(svcRequests) = 1
    /\ svcPc = "done" =>
        /\ svcResult.kind \in {"returned", "thrown"}
        /\ svcResult.kind = "returned" =>
              IsOk(svcResponse) /\ svcResult.value = ReturnValue(svcMethod, svcResponse)
        /\ ~IsOk(svcResponse) => svcResult.kind = "thrown"

C1_Witness ==
    /\ svcPc = "done"
    /\ svcResult.kind = "thrown"
    /\ svcResponse.status = 500
    /\ Len(svcRequests) = 1

\* C2 (as stated): for uploadInvoice, getInvoices, getInvoice, approveInvoice,
\* getStats and getRecentInvoices, an HTTP 401 answer makes the call throw an Error
\* whose message is 'Authentication required', whatever the body holds.
C2_401AuthenticationRequired ==
    (/\ svcPc = "done"
     /\ svcMethod \in InvoiceMethods \cup DashboardMethods
     /\ svcResponse.status = 401)
    => (svcResult.kind = "thrown" /\ svcResult.error.message = "Authentication required")

\* C3 (as stated): for every service method, an HTTP 400 answer with a non-empty
\* detail string makes the method throw an Error whose message is that detail.
C3_400DetailEveryMethod ==
    (/\ svcPc = "done"
     /\ svcResponse.status = 400
     /\ svcResponse.detail.t = "str"
     /\ svcResponse.detail.v # "")
    => (svcResult.kind = "thrown" /\ svcResult.error.message = svcResponse.detail.v)

\* C3 (amended): for every service method except changePassword, an HTTP 400 answer
\* with a non-empty detail string makes the method throw an Error whose message is
\* that detail; changePassword throws 'Current password is incorrect' on every 400.
C3_400Detail ==
    (svcPc = "done" /\ svcResponse.status = 400) =>
        /\ svcResult.kind = "thrown"
        /\ svcMethod = "changePassword" =>
              svcResult.error.message = "Current password is incorrect"
        /\ (/\ svcMethod # "changePassword"
            /\ svcResponse.detail.t = "str"
            /\ svcResponse.detail.v # "")
           => svcResult.error.message = svcResponse.detail.v

C3_Witness ==
    /\ svcPc = "done"
    /\ svcMethod = "register"
    /\ svcResponse.status = 400
    /\ svcResponse.detail = StrDetail("Server says no")
    /\ svcResult.error.message = "Server says no"

\* C4 (as stated): whenever a request made with the stored token is answered with
\* HTTP 401, the stored token is eventually cleared. The program takes a step of
\* its own only when a request settles, so: once every request has settled, a
\* token for which a service call of a page got a 401 is no longer stored nor held.
C4_401ClearsToken ==
    Quiescent =>
        \A m \in DashboardMethods :
            (/\ dashReq[m].pc = "failed"
             /\ dashReq[m].status = 401
             /\ dashReq[m].authorization # Bearer(Null))
            => (/\ dashReq[m].authorization # Bearer(localStorage["docbot_token"])
                /\ dashReq[m].authorization # Bearer(token))

\* C5 (as stated): after logout() returns, user and token are null and localStorage
\* has no 'docbot_token', until login() is next called, whatever request completes
\* in between.
C5_LogoutSticks ==
    afterLogout => (user = Null /\ token = Null /\ localStorage["docbot_token"] = Null)

\* C6: every request of dashboardService and invoiceService carries 'Bearer t', t
\* being the value under 'docbot_token' at the moment of the call; so a call made
\* while AuthProvider holds the token of a resolved login carries that token, and
\* no call carries a token that logout has removed.
C6_BearerPerCall ==
    [][\A m \in DashboardMethods :
          (dashReq[m].pc # "wait" /\ dashReq'[m].pc = "wait") =>
              /\ dashReq'[m].authorization = Bearer(localStorage["docbot_token"])
              /\ \A i \in 1..MaxLogins :
                    (logins[i] = "resolved" /\ token = LoginToken(i))
                    => dashReq'[m].authorization = Bearer(LoginToken(i))
              /\ \A t \in discarded : dashReq'[m].authorization # Bearer(t)]_vars

C6_Witness ==
    /\ discarded = {StoredToken}
    /\ logins[1] = "resolved"
    /\ dashReq["getStats"].authorization = Bearer(LoginToken(1))
    /\ dashReq["getRecentInvoices"].authorization = Bearer(LoginToken(1))

\* C7 (as stated): no page other than the login page is rendered unless an auth
\* token is held, in either route table.
C7_PagesNeedToken ==
    PageAt(app, path) \in ProtectedPages =>
        (token # Null \/ \E k \in Keys : localStorage[k] # Null)

\* C10 (as stated): when login() resolves, token state and localStorage
\* 'docbot_token' both equal the access_token that call got, and user is the data
\* getCurrentUser returned for it.
C10_LoginResolved ==
    [][\A i \in 1..MaxLogins :
          (logins[i] = "me" /\ logins'[i] = "resolved") =>
              /\ token' = LoginToken(i)
              /\ localStorage'["docbot_token"] = LoginToken(i)
              /\ user' = UserData(LoginToken(i))]_vars

\* C8: invoking handleUpload of the InvoiceUpload page with no file selected shows
\* an error notification, sends no request and leaves files, uploading and
\* uploadProgress as they were.
C8_NoFileNoUpload ==
    [][(Len(files) = 0 /\ handleUpload) =>
          /\ notifications' = Append(notifications,
                [message |-> "Please select at least one file to upload", type |-> "error"])
          /\ UNCHANGED <<files, uploading, uploadProgress, uploads>>]_vars

C8_Witness ==
    /\ Len(notifications) > 0
    /\ notifications[1].message = "Please select at least one file to upload"
    /\ uploads = <<>>
    /\ ~uploading

\* C9 (as stated): when an upload fails on the InvoiceUpload page, the error
\* notification shows the message of the Error uploadInvoice threw.
C9_NotificationShowsError ==
    [][\A k \in DOMAIN uploads : \A r \in UploadResponses :
          (/\ uploadSettle(k, r)
           /\ Settle("uploadInvoice", r).kind = "thrown"
           /\ Len(notifications') = Len(notifications) + 1)
          => notifications'[Len(notifications')] =
                [message |-> Settle("uploadInvoice", r).error.message, type |-> "error"]]_vars

\* no login() and no logout() has been called since the AuthProvider mounted
StartUp == ~afterLogout /\ \A i \in 1..MaxLogins : logins[i] = "idle"

\* C11: at start-up, with no token stored initAuth sends no request and leaves
\* token and user null; with a token stored, a successful getCurrentUser leaves
\* token the stored token and makes user the returned user, and a failed one
\* removes 'docbot_token', sets token to null and leaves user null.
C11_StartUp ==
    [][/\ initAuthStart =>
            IF localStorage["docbot_token"] = Null
            THEN initPc' = "done" /\ token' = Null /\ user' = Null
            ELSE initPc' = "wait" /\ token' = localStorage["docbot_token"]
       /\ \A r \in AuthResponses :
            initAuthSettle(r) =>
                IF IsOk(r)
                THEN /\ user' = UserData(storedToken)
                     /\ UNCHANGED <<token, localStorage>>
                     /\ StartUp => (token' = storedToken /\
                                    localStorage'["docbot_token"] = storedToken)
                ELSE /\ localStorage'["docbot_token"] = Null
                     /\ token' = Null
                     /\ user' = user
                     /\ StartUp => user' = Null]_vars

C11_Witness ==
    /\ StartUp
    /\ initPc = "done"
    /\ storedToken = StoredToken
    /\ token = Null
    /\ localStorage["docbot_token"] = Null
    /\ user = Null

\* C12: AuthProvider.loading and the loading of a mounted Dashboard start true,
\* become false once their start-up requests have settled, whatever the outcome,
\* and are never true again afterwards.
C12_LoadingClears ==
    /\ [][/\ ~loading => ~loading'
          /\ (dashMounted /\ ~dashLoading /\ dashMounted') => ~dashLoading'
          /\ (~dashMounted /\ dashMounted') => dashLoading']_vars
    /\ (app = "tsx" /\ loading) ~> ~loading
    /\ (dashMounted /\ dashLoading) ~> (~dashMounted \/ ~dashLoading)

C12_Witness ==
    /\ ~loading
    /\ initPc = "done"
    /\ dashMounted
    /\ ~dashLoading
    /\ dashAll = "rejected"

\* C13 (as stated): the uploading flag of the InvoiceUpload page is true from the
\* moment handleUpload sends its requests until they have settled, and false
\* after every outcome: it is true exactly while a request sent by the page on
\* display is unanswered.
C13_UploadingWhileInFlight ==
    PageAt(app, path) = "InvoiceUpload" =>
        (uploading <=> \E k \in DOMAIN uploads : uploads[k].live /\ uploads[k].pc = "wait")

\* C14: the Dashboard's load sets stats and recentInvoices in one step, to the
\* values getStats and getRecentInvoices returned, and only when both succeeded;
\* when either fails neither is changed (stats null, recentInvoices empty) and
\* one 'Failed to load dashboard data' error notification is shown for the load.
C14_LoadAllOrNothing ==
    [][\A m \in DashboardMethods : \A r \in AuthResponses :
          DashSettle(m, r) =>
              LET ok == \A o \in DashboardMethods : dashReq'[o].pc = "ok"
                  failed == \E o \in DashboardMethods : dashReq'[o].pc = "failed"
                  first == \A o \in DashboardMethods : dashReq[o].pc # "failed"
              IN  /\ (dashMounted /\ ok) =>
                        /\ stats' = dashReq'["getStats"].value
                        /\ recentInvoices' = dashReq'["getRecentInvoices"].value
                        /\ UNCHANGED notifications
                  /\ ~ok => (stats' = stats /\ recentInvoices' = recentInvoices)
                  /\ (dashMounted /\ failed) => (stats' = "null" /\ recentInvoices' = "[]")
                  /\ (failed /\ first) =>
                        notifications' = Append(notifications,
                            [message |-> "Failed to load dashboard data", type |-> "error"])
                  /\ (failed /\ ~first) => UNCHANGED notifications]_vars

C14_Witness ==
    /\ dashMounted
    /\ dashReq["getStats"].pc = "ok"
    /\ dashReq["getRecentInvoices"].pc = "failed"
    /\ stats = "null"
    /\ recentInvoices = "[]"
    /\ Len(notifications) = 1

\* the requests of the batch that handleUpload is awaiting
Awaited(k) == batchPending /\ uploads[k].batch = batches

\* C15: when an upload of the batch handleUpload awaits fails, no file leaves the
\* selected list, the location stays, and one error notification is shown for the
\* batch (later answers to the batch's other uploads show none); the next click on
\* Upload sends every file of the list once more, the ones already uploaded too.
C15_FailedBatch ==
    [][/\ \A k \in DOMAIN uploads : \A r \in UploadResponses :
            uploadSettle(k, r) =>
                /\ ~Awaited(k) => UNCHANGED <<files, path, notifications>>
                /\ ~IsOk(r) =>
                      /\ files' = files
                      /\ path' = path
                      /\ Awaited(k) =>
                            /\ Len(notifications') = Len(notifications) + 1
                            /\ notifications'[Len(notifications')].type = "error"
                            /\ ~batchPending'
       /\ (Len(files) > 0 /\ handleUpload) =>
            /\ files' = files
            /\ \A i \in DOMAIN files :
                  Cardinality({j \in DOMAIN uploads' :
                                  /\ uploads'[j].batch = batches'
                                  /\ uploads'[j].pc = "wait"
                                  /\ uploads'[j].file = files[i].file.id}) = 1]_vars

C15_Witness ==
    /\ batches = 2
    /\ Len(files) = 2
    /\ \E j \in DOMAIN uploads :
          uploads[j].batch = 2 /\ uploads[j].pc = "wait" /\ uploads[j].file \in accepted
    /\ Len(notifications) = 1
    /\ notifications[1] = [message |-> "Failed to upload invoices", type |-> "error"]

\* C16: when the last unanswered upload of the batch handleUpload awaits is
\* answered ok and every other one was, the batch held one request for each of the
\* n files selected at the click, one success notification reporting n invoices is
\* shown, the selected list becomes empty and the location becomes /invoices.
C16_BatchSucceeds ==
    [][\A k \in DOMAIN uploads : \A r \in UploadResponses :
          (/\ uploadSettle(k, r)
           /\ IsOk(r)
           /\ Awaited(k)
           /\ \A j \in DOMAIN uploads : (uploads[j].batch = batches /\ j # k) => uploads[j].pc = "ok")
          => LET n == uploads[k].n
                 batch == {j \in DOMAIN uploads : uploads[j].batch = batches}
             IN  /\ n >= 1
                 /\ Cardinality(batch) = n
                 /\ \A i \in 1..n :
                       Cardinality({j \in batch : uploads[j].file = files[i].file.id}) = 1
                 /\ notifications' = Append(notifications,
                       [message |-> "Successfully uploaded " \o ToString(n) \o
                                    (IF n = 1 THEN " invoice" ELSE " invoices"),
                        type |-> "success"])
                 /\ files' = <<>>
                 /\ path' = "/invoices"]_vars

C16_Witness ==
    /\ path = "/invoices"
    /\ files = <<>>
    /\ accepted = {1, 2}
    /\ sent = 2
    /\ notifications = <<[message |-> "Successfully uploaded 2 invoices", type |-> "success"]>>

\* C17 (as stated): while handleUpload awaits a batch of n files, uploadProgress
\* is 100 x (uploads of the batch completed so far) / n, in whatever order the
\* uploads complete (and so never decreases).
C17_ProgressCountsCompleted ==
    (PageAt(app, path) = "InvoiceUpload" /\ batchPending) =>
        \A k \in DOMAIN uploads :
            uploads[k].batch = batches =>
                uploadProgress.num * uploads[k].n =
                    uploadProgress.den *
                        Cardinality({j \in DOMAIN uploads :
                                        uploads[j].batch = batches /\ uploads[j].pc = "ok"})

\* C18: every file of the selected list of the InvoiceUpload page, and so every
\* file handed to uploadInvoice, is a PDF, JPEG or PNG (by MIME type or by the
\* extension of its name) of at most 50 MB; a dropped file outside these limits
\* does not enter the list.
C18_OnlyAcceptedFiles ==
    /\ [](\A i \in DOMAIN files :
             /\ files[i].file.type \in AcceptedTypes \/ files[i].file.ext \in AcceptedExts
             /\ files[i].file.size <= 50 * 1024 * 1024)
    /\ [][/\ \A f \in Dropped :
                (drop(f) /\ ~(f.type \in AcceptedTypes \/ f.ext \in AcceptedExts)) => files' = files
          /\ \A f \in Dropped :
                (drop(f) /\ f.size > 50 * 1024 * 1024) => files' = files
          /\ \A j \in DOMAIN uploads' :
                (j \notin DOMAIN uploads \/ uploads'[j].batch > batches) =>
                    \E i \in DOMAIN files : files[i].file.id = uploads'[j].file]_vars

C18_Witness ==
    /\ Len(files) = 2
    /\ files[1].file.size = MaxSize
    /\ files[2].file.type = ""
    /\ files[2].file.ext = ".pdf"
    /\ nextFile = 2

\* C19: when a request fails without any HTTP response, the method throws an Error
\* carrying its own fixed fallback message and returns no value.
C19_NetworkErrorFallback ==
    (svcPc = "done" /\ svcResponse = NoResponse) =>
        /\ svcResult.kind = "thrown"
        /\ svcResult.value = "undefined"
        /\ svcResult.error.message = Fallback(svcMethod)
        /\ svcMethod = "login" => svcResult.error.message = "Login failed"
        /\ svcMethod = "uploadInvoice" => svcResult.error.message = "Failed to upload invoice"
        /\ svcMethod = "getStats" => svcResult.error.message = "Failed to get dashboard stats"
        /\ svcMethod = "changePassword" => svcResult.error.message = "Failed to change password"

C19_Witness ==
    /\ svcPc = "done"
    /\ svcResponse = NoResponse
    /\ svcMethod = "getStats"
    /\ svcResult.kind = "thrown"
    /\ svcResult.error.message = "Failed to get dashboard stats"

\* C20 (as stated): the query string of getInvoices holds exactly the parameters
\* among skip, limit and status_filter that the caller supplied, each with the
\* supplied value, and no others.
C20_QueryIsWhatWasSupplied ==
    (svcPc \in {"sent", "done"} /\ svcMethod = "getInvoices") =>
        LET params == svcRequests[1].params
            query == svcRequests[1].query
            Pairs == {query[i] : i \in DOMAIN query}
        IN  /\ Cardinality(Pairs) = Len(query)
            /\ \A pr \in Pairs : pr[1] \in {"skip", "limit", "status_filter"}
            /\ params.skip.t # "undefined" <=> <<"skip", ToString(params.skip.v)>> \in Pairs
            /\ params.limit.t # "undefined" <=> <<"limit", ToString(params.limit.v)>> \in Pairs
            /\ params.status_filter.t # "undefined" <=>
                  <<"status_filter", params.status_filter.v>> \in Pairs


\* C21: App.js Login.handleSubmit writes a token to localStorage and calls onLogin
\* only when the login response is ok; for a non-ok response or a thrown network
\* error nothing is stored, onLogin is not called and an alert is shown.
C21_StoresOnlyWhenOk ==
    [][ /\ (localStorage' # localStorage \/ onLoginCalls' # onLoginCalls)
            => \E o \in FetchOutcomes, live \in BOOLEAN :
                   o.kind = "response" /\ o.ok /\ handleSubmitSettle(o, live)
        /\ \A o \in FetchOutcomes, live \in BOOLEAN :
               (~o.ok /\ handleSubmitSettle(o, live))
                   => /\ localStorage' = localStorage
                      /\ onLoginCalls' = onLoginCalls
                      /\ Len(alerts') = Len(alerts) + 1 ]_vars

C21_Witness ==
    /\ localStorage["token"] = JsToken
    /\ onLoginCalls = <<JsToken>>
    /\ Len(alerts) = 1
    /\ jsInFlight = 0


\* C22 (as stated): if AuthContext.login() rejects, token, user and localStorage
\* 'docbot_token' are exactly as they were before the call, whichever of its two
\* requests failed. The access_token a call obtains is held nowhere before that
\* call, so: when call i rejects, neither token nor 'docbot_token' holds the
\* access_token of call i, and user is not the data of that token.
C22_RejectedLoginLeavesNothing ==
    [][\A i \in 1..MaxLogins :
          (logins[i] \in {"login", "me"} /\ logins'[i] = "rejected") =>
              /\ token' # LoginToken(i)
              /\ localStorage'["docbot_token"] # LoginToken(i)
              /\ user' # UserData(LoginToken(i))]_vars

\* no operation of AuthProvider is in flight, initAuth has run
AuthIdle ==
    /\ initPc = "done"
    /\ \A i \in 1..MaxLogins : logins[i] \notin {"login", "me"}

\* C23 (as stated): whenever no AuthProvider operation is in flight, after any
\* sequence of initAuth, login and logout, token state equals the value of
\* localStorage 'docbot_token', and user is non-null only if token is non-null.
C23_TokenMatchesStorage ==
    AuthIdle =>
        /\ token = localStorage["docbot_token"]
        /\ user # Null => token # Null

\* C24 (as stated): if login() succeeds while initAuth's validation of an older
\* stored token is still in flight, a later failure of that validation neither
\* removes the newly stored token from localStorage nor resets token to null.
C24_LateFailureKeepsNewToken ==
    [][\A i \in 1..MaxLogins :
          (/\ initPc = "wait" /\ initPc' = "done"
           /\ logins[i] = "resolved"
           /\ token = LoginToken(i)
           /\ localStorage["docbot_token"] = LoginToken(i))
          => (/\ token' = LoginToken(i)
              /\ localStorage'["docbot_token"] = LoginToken(i))]_vars


\* C25 (as stated): whenever uploading is false on the InvoiceUpload page,
\* uploadProgress is 0, also after a batch has failed while other uploads of the
\* same batch were still in flight and complete later.
C25_IdleProgressZero ==
    (PageAt(app, path) = "InvoiceUpload" /\ ~uploading) => uploadProgress.num = 0

\* the ids of the files in a list of selected files
Ids(fs) == {fs[i].file.id : i \in DOMAIN fs}

\* C26 (as stated): a file dropped into the dropzone while a batch upload is in
\* flight is not lost: when the batch finishes, every selected file that is not
\* part of the batch has been uploaded or is still in the selected list.
C26_DroppedFileNotLost ==
    [][(batchPending /\ ~batchPending') =>
          \A id \in Ids(files) \ {uploads[k].file : k \in {j \in DOMAIN uploads : Awaited(j)}} :
              id \in accepted' \/ id \in Ids(files')]_vars

C28_PreviewsRevoked ==
    objectUrls \subseteq {files[i].preview : i \in DOMAIN files}


\* C29 (as stated): every login path that stores an access token writes it under
\* the localStorage key that invoiceService and dashboardService read, so a
\* service call made after a successful login carries that login's token. For
\* the Login of App.js: a call of one of the two services that starts after
\* onLogin was called carries the access_token of the latest such login.
C29_ServiceCarriesLoginToken ==
    [][\A m \in InvoiceMethods \cup DashboardMethods :
          (/\ svcPc = "idle" /\ svcPc' = "sent" /\ svcMethod' = m
           /\ onLoginCalls # <<>>)
          => svcRequests'[1].authorization = Bearer(onLoginCalls[Len(onLoginCalls)])]_vars

====
